---- MODULE Spec2Model ----
(***************************************************************************)
(* Model of asyncpg_fastapi.ConfigureAsyncpg                               *)
(* (src/src/asyncpg_fastapi/asyncpg_fastapi.py).                           *)
(*                                                                         *)
(* A binder (one ConfigureAsyncpg instance) owns the startup handler       *)
(* on_connect, the shutdown handler on_disconnect, the registration        *)
(* method on_init and the accessor pool.  A flow is one invocation of the  *)
(* async generators connection() or transaction() driven by a caller.      *)
(*                                                                         *)
(* Every coroutine is cut at its await points: one action is the code      *)
(* that runs between two suspensions, so that other flows interleave       *)
(* exactly where the event loop can switch.  The asyncpg driver            *)
(* (create_pool, Pool.acquire, Pool.release, Pool.close, Transaction) is   *)
(* not part of the source; it is modelled by its interface: create_pool,   *)
(* acquire, start, commit and rollback may fail, acquire suspends until a  *)
(* connection is free, release returns the connection and does not fail.   *)
(***************************************************************************)
EXTENDS Integers, Sequences, FiniteSets

\* ------------------------------------------------------------------ bounds
\* Binder instances the host may construct.
NumBinders == 2
\* Scope invocations (each flow enters one scope once).
NumFlows == 2
\* Constructions and invocations of on_connect, on_disconnect, on_init and of
\* the scopes, in total.
MaxCalls == 4
\* Connections of each pool.
PoolCapacity == 1

\* --------------------------------------------------------------- constants
\* Python's None (the default of init_db and pool).
None == 0

Binders == 1..NumBinders
Flows == 1..NumFlows

\* The init callables a host may register: routine 1 at construction or
\* through on_init, routine 2 through on_init.
Routines == {1, 2}
CtorRoutines == {1}

\* Pool handles: binder b's externally supplied pool is handle b; pools made
\* by create_pool get the next handles.
ExternalPools == 1..NumBinders

\* Attribute names of app.state that binders mint.
Codes == 1..NumBinders
CreatedPools == (NumBinders + 1)..(NumBinders + MaxCalls)
Pools == ExternalPools \cup CreatedPools

\* What the caller can throw into the generator at the yield: its own
\* failure (an Exception), the cancellation of its task (CancelledError) and
\* the early termination of the generator (aclose() throws GeneratorExit).
\* The last two are BaseExceptions.
CallerErrors == {"CallerError", "CancelledError", "GeneratorExit"}
NoExc == "none"

VARIABLES
    built,       \* the binders constructed so far
    init_db,     \* init_db[b]: self.init_db, a routine or None
    self_pool,   \* self_pool[b]: self._pool, an external pool handle or None
    db_code,     \* db_code[b]: self._db_code, the slot name in app.state
    regs,        \* regs[b]: the latest registration of an init routine on b:
                 \* by the constructor or on_init, its argument, what it returned
    appState,    \* appState[code]: app.state attribute, a pool handle or None (unset)
    conn,        \* conn[b]: frame of binder b's on_connect coroutine
    dres,        \* dres[b]: outcome of binder b's latest on_disconnect
    blog,        \* blog[b]: calls made so far by binder b's handlers
    poolFree,    \* poolFree[p]: free connections of pool p
    closeCnt,    \* closeCnt[p]: close() calls received by pool p
    nextPool,    \* number of pools create_pool has returned
    flows,       \* flows[f]: frame of flow f's scope generator
    calls        \* handler and scope invocations so far

vars == <<built, init_db, self_pool, db_code, regs, appState, conn, dres, blog,
          poolFree, closeCnt, nextPool, flows, calls>>

binderVars == <<built, init_db, self_pool, db_code, regs>>

\* ----------------------------------------------------------------- helpers
\* Python truthiness of `self._pool` (None is falsy, a pool object is truthy).
Truthy(x) == x # None

Ev(op, arg) == [op |-> op, arg |-> arg]

Count(s, op) == Cardinality({i \in DOMAIN s : s[i].op = op})

CountT(s, op) == Cardinality({i \in DOMAIN s : s[i] = op})

\* Variant of pool: falls back on the pool a suspended on_connect holds.
poolOrPending(b) ==
    IF appState[db_code[b]] # None
    THEN [ok |-> TRUE, val |-> appState[db_code[b]], exc |-> NoExc]
    ELSE IF conn[b].pool # None
    THEN [ok |-> TRUE, val |-> conn[b].pool, exc |-> NoExc]
    ELSE [ok |-> FALSE, val |-> None, exc |-> "AttributeError"]

\* The accessor: getattr(self.app.state, self._db_code).
pool(b) ==
    IF appState[db_code[b]] # None
    THEN [ok |-> TRUE, val |-> appState[db_code[b]], exc |-> NoExc]
    ELSE [ok |-> FALSE, val |-> None, exc |-> "AttributeError"]

\* Frame of on_connect: pc (where it is suspended), pool (the local `pool`),
\* exc (the exception pending in the `async with`), res (how the latest
\* invocation ended), oks (invocations that returned normally so far).
IdleConn == [pc |-> "idle", pool |-> None, exc |-> NoExc, res |-> "none", oks |-> 0]

\* Frame of a scope generator: pc, kind, binder, pool (the pool the accessor
\* returned), got (acquire returned a connection), thrown (what the caller
\* threw in at the yield), failure (what start/commit/rollback raised), exc
\* (the exception pending in the `async with`), res (what reached the
\* caller), trace (the calls made, in order).
IdleFlow == [pc |-> "idle", kind |-> "none", binder |-> 0, pool |-> None,
             got |-> FALSE, thrown |-> NoExc, failure |-> NoExc, exc |-> NoExc,
             res |-> "none", trace |-> <<>>]

\* No registration yet.
NoReg == [by |-> "none", arg |-> None, ret |-> None]

\* -------------------------------------------------------------------- Init
\* The application exists, app.state has no attribute, no binder has been
\* constructed and no handler has run.
Init ==
    /\ built = {}
    /\ init_db = [b \in Binders |-> None]
    /\ self_pool = [b \in Binders |-> None]
    /\ db_code = [b \in Binders |-> None]
    /\ regs = [b \in Binders |-> NoReg]
    /\ appState = [c \in Codes |-> None]
    /\ conn = [b \in Binders |-> IdleConn]
    /\ dres = [b \in Binders |-> "none"]
    /\ blog = [b \in Binders |-> <<>>]
    /\ poolFree = [p \in Pools |-> PoolCapacity]
    /\ closeCnt = [p \in Pools |-> 0]
    /\ nextPool = 0
    /\ flows = [f \in Flows |-> IdleFlow]
    /\ calls = 0

\* --------------------------------------------------- __init__ (lines 7-36)
\* Variant of MintCode: every instance uses the same attribute name.
MintCodeShared(b) == 1

\* Line 34: f"db{uuid4().hex}", a name no other instance has.
MintCode(b) == b

\* The constructor: stores init_db and pool, mints the slot name and
\* registers the two handlers (which makes them callable by the host).
\* Binders are interchangeable and are numbered in the order they are built.
ConfigureAsyncpg(b, func, p) ==
    /\ b \notin built
    /\ \A a \in Binders : a < b => a \in built
    /\ calls < MaxCalls
    /\ calls' = calls + 1
    /\ built' = built \cup {b}
    /\ init_db' = [init_db EXCEPT ![b] = func]
    /\ self_pool' = [self_pool EXCEPT ![b] = p]
    /\ db_code' = [db_code EXCEPT ![b] = MintCode(b)]
    /\ regs' = [regs EXCEPT ![b] = [by |-> "__init__", arg |-> func, ret |-> None]]
    /\ UNCHANGED <<appState, conn, dres, blog, poolFree, closeCnt, nextPool, flows>>

\* ------------------------------------------------- on_connect (lines 38-48)
\* Variant of BypassTaken: the handlers do not test self._pool.
BypassIgnored(b) == FALSE

\* Line 42 and line 53: `if self._pool:`.
BypassTaken(b) == Truthy(self_pool[b])

\* Variant of Publishes: line 48 runs whatever the `async with` block did
\* (setattr placed in a finally clause).
PublishesAlways(exc) == TRUE

\* Line 48 is reached only when the `async with` block of lines 46-47 ended
\* without a pending exception.
Publishes(exc) == exc = NoExc

\* Lines 42-45.  Bypass path: setattr and return.  Owned path: call
\* create_pool and suspend in it.
OnConnectBegin(b) ==
    /\ b \in built
    /\ conn[b].pc = "idle"
    /\ calls < MaxCalls
    /\ calls' = calls + 1
    /\ IF BypassTaken(b)
       THEN /\ appState' = [appState EXCEPT ![db_code[b]] = self_pool[b]]
            /\ blog' = [blog EXCEPT ![b] = Append(@, Ev("setattr", self_pool[b]))]
            /\ conn' = [conn EXCEPT ![b] = [IdleConn EXCEPT !.res = "ok",
                                                             !.oks = conn[b].oks + 1]]
       ELSE /\ blog' = [blog EXCEPT ![b] = Append(@, Ev("create_pool", None))]
            /\ conn' = [conn EXCEPT ![b] = [IdleConn EXCEPT !.pc = "create_pool",
                                                             !.oks = conn[b].oks]]
            /\ UNCHANGED appState
    /\ UNCHANGED <<binderVars, dres, poolFree, closeCnt, nextPool, flows>>

\* Variant of OnConnectCreated: the pool is stored in app.state as soon as
\* create_pool returns, before the init routine has run.
OnConnectCreatedEarly(b, ok) ==
    /\ conn[b].pc = "create_pool"
    /\ IF ok
       THEN LET p == NumBinders + nextPool + 1 IN
            /\ nextPool' = nextPool + 1
            /\ appState' = [appState EXCEPT ![db_code[b]] = p]
            /\ conn' = [conn EXCEPT ![b].pc = "acquire", ![b].pool = p]
            /\ blog' = [blog EXCEPT ![b] = Append(@, Ev("acquire", p))]
       ELSE /\ conn' = [conn EXCEPT ![b].pc = "idle", ![b].res = "ConnectionError"]
            /\ UNCHANGED <<nextPool, blog, appState>>
    /\ UNCHANGED <<binderVars, dres, poolFree, closeCnt, flows, calls>>

\* Lines 45-46: create_pool returns a new pool (bound to the local `pool`)
\* or raises; on success pool.acquire() is entered and the coroutine
\* suspends in it.
OnConnectCreated(b, ok) ==
    /\ conn[b].pc = "create_pool"
    /\ IF ok
       THEN LET p == NumBinders + nextPool + 1 IN
            /\ nextPool' = nextPool + 1
            /\ conn' = [conn EXCEPT ![b].pc = "acquire", ![b].pool = p]
            /\ blog' = [blog EXCEPT ![b] = Append(@, Ev("acquire", p))]
       ELSE /\ conn' = [conn EXCEPT ![b].pc = "idle", ![b].res = "ConnectionError"]
            /\ UNCHANGED <<nextPool, blog>>
    /\ UNCHANGED <<binderVars, appState, dres, poolFree, closeCnt, flows, calls>>

\* Lines 46-47: acquire returns a connection or raises.  With a connection,
\* `self.init_db(db)` is called: a routine is awaited; None is not callable,
\* so the call raises TypeError inside the `async with`, whose exit releases
\* the connection.
OnConnectAcquired(b, ok) ==
    /\ conn[b].pc = "acquire"
    /\ IF ~ok
       THEN /\ conn' = [conn EXCEPT ![b].pc = "idle", ![b].res = "AcquireError"]
            /\ UNCHANGED <<poolFree, blog>>
       ELSE /\ poolFree[conn[b].pool] > 0
            /\ poolFree' = [poolFree EXCEPT ![conn[b].pool] = @ - 1]
            /\ IF init_db[b] = None
               THEN /\ conn' = [conn EXCEPT ![b].pc = "release", ![b].exc = "TypeError"]
                    /\ blog' = [blog EXCEPT ![b] = Append(@, Ev("release", conn[b].pool))]
               ELSE /\ conn' = [conn EXCEPT ![b].pc = "init"]
                    /\ blog' = [blog EXCEPT ![b] = Append(@, Ev("init", init_db[b]))]
    /\ UNCHANGED <<binderVars, appState, dres, closeCnt, nextPool, flows, calls>>

\* Line 47 -> exit of the `async with` of line 46: the init routine returns
\* or raises; either way the connection's release is called and awaited.
OnConnectInitDone(b, ok) ==
    /\ conn[b].pc = "init"
    /\ conn' = [conn EXCEPT ![b].pc = "release",
                            ![b].exc = IF ok THEN NoExc ELSE "InitError"]
    /\ blog' = [blog EXCEPT ![b] = Append(@, Ev("release", conn[b].pool))]
    /\ UNCHANGED <<binderVars, appState, dres, poolFree, closeCnt, nextPool, flows, calls>>

\* Lines 46-48: the release completes; a pending exception propagates out of
\* on_connect, otherwise the pool is stored in app.state.
OnConnectReleased(b) ==
    /\ conn[b].pc = "release"
    /\ poolFree' = [poolFree EXCEPT ![conn[b].pool] = @ + 1]
    /\ IF Publishes(conn[b].exc)
       THEN /\ appState' = [appState EXCEPT ![db_code[b]] = conn[b].pool]
            /\ blog' = [blog EXCEPT ![b] = Append(@, Ev("setattr", conn[b].pool))]
            /\ conn' = [conn EXCEPT ![b].pc = "idle", ![b].res = "ok", ![b].oks = @ + 1]
       ELSE /\ conn' = [conn EXCEPT ![b].pc = "idle", ![b].res = conn[b].exc]
            /\ UNCHANGED <<appState, blog>>
    /\ UNCHANGED <<binderVars, dres, closeCnt, nextPool, flows, calls>>

\* Variant of OnDisconnect: the owned path removes the attribute from
\* app.state after closing the pool.
OnDisconnectClears(b) ==
    /\ b \in built
    /\ conn[b].pc = "idle"
    /\ calls < MaxCalls
    /\ calls' = calls + 1
    /\ IF BypassTaken(b)
       THEN /\ dres' = [dres EXCEPT ![b] = "ok"]
            /\ blog' = [blog EXCEPT ![b] = Append(@, Ev("on_disconnect", None))]
            /\ UNCHANGED <<closeCnt, appState>>
       ELSE IF pool(b).ok
            THEN /\ closeCnt' = [closeCnt EXCEPT ![pool(b).val] = @ + 1]
                 /\ blog' = [blog EXCEPT ![b] = @ \o <<Ev("on_disconnect", None),
                                                       Ev("close", pool(b).val)>>]
                 /\ dres' = [dres EXCEPT ![b] = "ok"]
                 /\ appState' = [appState EXCEPT ![db_code[b]] = None]
            ELSE /\ dres' = [dres EXCEPT ![b] = pool(b).exc]
                 /\ blog' = [blog EXCEPT ![b] = Append(@, Ev("on_disconnect", None))]
                 /\ UNCHANGED <<closeCnt, appState>>
    /\ UNCHANGED <<binderVars, conn, poolFree, nextPool, flows>>

\* Variant of OnDisconnect: the owned path returns without closing the pool.
OnDisconnectNoClose(b) ==
    /\ b \in built
    /\ conn[b].pc = "idle"
    /\ calls < MaxCalls
    /\ calls' = calls + 1
    /\ dres' = [dres EXCEPT ![b] = IF BypassTaken(b) \/ pool(b).ok THEN "ok"
                                   ELSE pool(b).exc]
    /\ blog' = [blog EXCEPT ![b] = Append(@, Ev("on_disconnect", None))]
    /\ UNCHANGED <<binderVars, appState, conn, poolFree, closeCnt, nextPool, flows>>

\* ---------------------------------------------- on_disconnect (lines 50-55)
\* Bypass path: return.  Owned path: read the slot (AttributeError when it
\* was never set) and call close() on the stored pool.  The host fires
\* shutdown only when no startup handler is in flight.
OnDisconnect(b) ==
    /\ b \in built
    /\ conn[b].pc = "idle"
    /\ calls < MaxCalls
    /\ calls' = calls + 1
    /\ IF BypassTaken(b)
       THEN /\ dres' = [dres EXCEPT ![b] = "ok"]
            /\ blog' = [blog EXCEPT ![b] = Append(@, Ev("on_disconnect", None))]
            /\ UNCHANGED closeCnt
       ELSE IF pool(b).ok
            THEN /\ closeCnt' = [closeCnt EXCEPT ![pool(b).val] = @ + 1]
                 /\ blog' = [blog EXCEPT ![b] = @ \o <<Ev("on_disconnect", None),
                                                       Ev("close", pool(b).val)>>]
                 /\ dres' = [dres EXCEPT ![b] = "ok"]
            ELSE /\ dres' = [dres EXCEPT ![b] = pool(b).exc]
                 /\ blog' = [blog EXCEPT ![b] = Append(@, Ev("on_disconnect", None))]
                 /\ UNCHANGED closeCnt
    /\ UNCHANGED <<binderVars, appState, conn, poolFree, nextPool, flows>>

\* Variant of on_init: a routine given at construction is kept.
on_initKeepFirst(b, func) ==
    /\ b \in built
    /\ calls < MaxCalls
    /\ calls' = calls + 1
    /\ init_db' = [init_db EXCEPT ![b] = IF @ = None THEN func ELSE @]
    /\ regs' = [regs EXCEPT ![b] = [by |-> "on_init", arg |-> func, ret |-> func]]
    /\ UNCHANGED <<built, self_pool, db_code, appState, conn, dres, blog, poolFree,
                   closeCnt, nextPool, flows>>

\* ---------------------------------------------------- on_init (lines 57-59)
\* Replaces self.init_db; the value returned is the argument.
on_init(b, func) ==
    /\ b \in built
    /\ calls < MaxCalls
    /\ calls' = calls + 1
    /\ init_db' = [init_db EXCEPT ![b] = func]
    /\ regs' = [regs EXCEPT ![b] = [by |-> "on_init", arg |-> func, ret |-> func]]
    /\ UNCHANGED <<built, self_pool, db_code, appState, conn, dres, blog, poolFree,
                   closeCnt, nextPool, flows>>

\* ------------------------- connection (lines 65-76), transaction (78-98)
Kinds == {"connection", "transaction"}

\* True while flow f has a connection borrowed from its pool.
Holding(f) == flows[f].pc \in {"start", "body", "commit", "rollback", "release"}

\* Variant of AfterBody: transaction() ends like connection(), without
\* commit or rollback.
AfterBodyNoTxnEnd(kind, thrown) == "release"

\* Variant of Caught: `except Exception:`, which lets CancelledError and
\* GeneratorExit pass.
CaughtExceptionOnly(thrown) == thrown = "CallerError"

\* Line 94: the bare `except:` catches whatever is thrown in at the yield,
\* BaseExceptions included.
Caught(thrown) == thrown # NoExc

\* What the generator does when the caller resumes it at the yield.
\* connection (lines 75-76): the `async with` exits, releasing.
\* transaction (lines 92-98): `except:` rolls back on any exception thrown
\* in, `else:` commits on normal resumption; an exception the `except`
\* clause does not catch leaves the `try` with neither.
AfterBody(kind, thrown) ==
    IF kind = "connection" THEN "release"
    ELSE IF Caught(thrown) THEN "rollback"
    ELSE IF thrown = NoExc THEN "commit"
    ELSE "release"

\* Variant of AfterRollback: the bare `raise` of line 96 is missing, so the
\* caller's exception is swallowed after the rollback.
AfterRollbackNoRaise(thrown, failure) == failure

\* Lines 95-96: the exception leaving the `except:` clause.  A failing
\* rollback raises in place of the bare `raise`; otherwise the exception
\* thrown in by the caller is re-raised.
AfterRollback(thrown, failure) ==
    IF failure # NoExc THEN failure ELSE thrown

\* Variant of AfterCommit: a failing commit is swallowed.
AfterCommitSwallow(failure) == NoExc

\* Line 98: the exception leaving the `else:` clause.
AfterCommit(failure) == failure

\* Exit of `async with self.pool.acquire() as db` (lines 75, 89): release is
\* called with the pending exception kept.
ExitAcquire(f, exc) ==
    [flows EXCEPT ![f].pc = "release", ![f].exc = exc,
                  ![f].trace = Append(@, "release")]

\* The failure a driver call raised, kept in the frame.
Raised(fl, f, failure) == [fl EXCEPT ![f].failure = failure]

\* First resumption of the generator: lines 75 / 89 up to the suspension in
\* acquire.  The accessor raises AttributeError when the slot is unset.
\* Flows are interchangeable and are numbered in the order they are entered.
ScopeEnter(f, b, kind) ==
    /\ b \in built
    /\ flows[f].pc = "idle"
    /\ \A g \in Flows : g < f => flows[g].pc # "idle"
    /\ calls < MaxCalls
    /\ calls' = calls + 1
    /\ IF pool(b).ok
       THEN flows' = [flows EXCEPT ![f] = [IdleFlow EXCEPT
                          !.pc = "acquire", !.kind = kind, !.binder = b,
                          !.pool = pool(b).val, !.trace = <<"acquire">>]]
       ELSE flows' = [flows EXCEPT ![f] = [IdleFlow EXCEPT
                          !.pc = "done", !.kind = kind, !.binder = b,
                          !.res = pool(b).exc]]
    /\ UNCHANGED <<binderVars, appState, conn, dres, blog, poolFree, closeCnt, nextPool>>

\* Variant of ScopeAcquired: the connection is yielded after the
\* `async with` block has been left, so the pool has it back while the
\* caller uses it.
ScopeAcquiredYieldOutside(f, ok) ==
    /\ flows[f].pc = "acquire"
    /\ IF ok
       THEN /\ closeCnt[flows[f].pool] = 0
            /\ poolFree[flows[f].pool] > 0
            /\ flows' = [flows EXCEPT ![f].pc = "body", ![f].got = TRUE,
                                      ![f].trace = Append(@, "yield")]
       ELSE flows' = [flows EXCEPT ![f].pc = "done", ![f].res = "AcquireError"]
    /\ UNCHANGED <<binderVars, appState, conn, dres, blog, poolFree, closeCnt,
                   nextPool, calls>>

\* acquire returns a connection (one must be free and the pool open) or
\* raises.  connection: line 76 yields.  transaction: lines 90-91 create the
\* transaction and suspend in txn.start().
ScopeAcquired(f, ok) ==
    /\ flows[f].pc = "acquire"
    /\ IF ok
       THEN /\ closeCnt[flows[f].pool] = 0
            /\ poolFree[flows[f].pool] > 0
            /\ poolFree' = [poolFree EXCEPT ![flows[f].pool] = @ - 1]
            /\ IF flows[f].kind = "connection"
               THEN flows' = [flows EXCEPT ![f].pc = "body", ![f].got = TRUE,
                                           ![f].trace = Append(@, "yield")]
               ELSE flows' = [flows EXCEPT ![f].pc = "start", ![f].got = TRUE,
                                           ![f].trace = Append(@, "start")]
       ELSE /\ flows' = [flows EXCEPT ![f].pc = "done", ![f].res = "AcquireError"]
            /\ UNCHANGED poolFree
    /\ UNCHANGED <<binderVars, appState, conn, dres, blog, closeCnt, nextPool, calls>>

\* Variant of TxnStarted: txn.start() is inside the `try`, so its failure is
\* caught by `except:` and followed by a rollback.
TxnStartedInTry(f, ok) ==
    /\ flows[f].pc = "start"
    /\ IF ok
       THEN flows' = [flows EXCEPT ![f].pc = "body", ![f].trace = Append(@, "yield")]
       ELSE flows' = [flows EXCEPT ![f].pc = "rollback", ![f].failure = "StartError",
                                   ![f].thrown = "StartError",
                                   ![f].trace = Append(@, "rollback")]
    /\ UNCHANGED <<binderVars, appState, conn, dres, blog, poolFree, closeCnt,
                   nextPool, calls>>

\* Lines 91-93: txn.start() returns and the connection is yielded, or it
\* raises outside the try, so only the `async with` exit runs.
TxnStarted(f, ok) ==
    /\ flows[f].pc = "start"
    /\ IF ok
       THEN flows' = [flows EXCEPT ![f].pc = "body", ![f].trace = Append(@, "yield")]
       ELSE flows' = Raised(ExitAcquire(f, "StartError"), f, "StartError")
    /\ UNCHANGED <<binderVars, appState, conn, dres, blog, poolFree, closeCnt,
                   nextPool, calls>>

\* Variant of ScopeResume: connection() releases only after a normal
\* resumption (acquire / yield / release without `async with`), so an
\* exception thrown in leaves the generator at once.
ScopeResumeNoFinally(f, thrown) ==
    /\ flows[f].pc = "body"
    /\ LET next == AfterBody(flows[f].kind, thrown) IN
       IF next = "release"
       THEN IF thrown = NoExc
            THEN flows' = [ExitAcquire(f, thrown) EXCEPT ![f].thrown = thrown]
            ELSE flows' = [flows EXCEPT ![f].pc = "done", ![f].thrown = thrown,
                                        ![f].res = thrown]
       ELSE flows' = [flows EXCEPT ![f].pc = next, ![f].thrown = thrown,
                                   ![f].trace = Append(@, next)]
    /\ UNCHANGED <<binderVars, appState, conn, dres, blog, poolFree, closeCnt,
                   nextPool, calls>>

\* The caller resumes the generator at the yield: normally (thrown = NoExc)
\* or by throwing its failure (or the cancellation) in.
ScopeResume(f, thrown) ==
    /\ flows[f].pc = "body"
    /\ LET next == AfterBody(flows[f].kind, thrown) IN
       IF next = "release"
       THEN flows' = [ExitAcquire(f, thrown) EXCEPT ![f].thrown = thrown]
       ELSE flows' = [flows EXCEPT ![f].pc = next, ![f].thrown = thrown,
                                   ![f].trace = Append(@, next)]
    /\ UNCHANGED <<binderVars, appState, conn, dres, blog, poolFree, closeCnt,
                   nextPool, calls>>

\* Variant of TxnCommitted: the commit is inside the `try`, so a failing
\* commit is caught by `except:` and followed by a rollback.
TxnCommittedInTry(f, failure) ==
    /\ flows[f].pc = "commit"
    /\ IF failure = NoExc
       THEN flows' = Raised(ExitAcquire(f, NoExc), f, failure)
       ELSE flows' = [flows EXCEPT ![f].pc = "rollback",
                                   ![f].trace = Append(@, "rollback")]
    /\ UNCHANGED <<binderVars, appState, conn, dres, blog, poolFree, closeCnt,
                   nextPool, calls>>

\* Line 98: txn.commit() returns or raises; then the `async with` exits.
TxnCommitted(f, failure) ==
    /\ flows[f].pc = "commit"
    /\ flows' = Raised(ExitAcquire(f, AfterCommit(failure)), f, failure)
    /\ UNCHANGED <<binderVars, appState, conn, dres, blog, poolFree, closeCnt,
                   nextPool, calls>>

\* Variant of TxnRolledBack: the commit is in a `finally:` clause, so it is
\* also called after a rollback that returned.
TxnRolledBackThenCommit(f, failure) ==
    /\ flows[f].pc = "rollback"
    /\ IF failure = NoExc
       THEN flows' = [flows EXCEPT ![f].pc = "commit",
                                   ![f].trace = Append(@, "commit")]
       ELSE flows' = Raised(ExitAcquire(f, failure), f, failure)
    /\ UNCHANGED <<binderVars, appState, conn, dres, blog, poolFree, closeCnt,
                   nextPool, calls>>

\* Lines 95-96: txn.rollback() returns or raises; then `raise`; then the
\* `async with` exits.
TxnRolledBack(f, failure) ==
    /\ flows[f].pc = "rollback"
    /\ flows' = Raised(ExitAcquire(f, AfterRollback(flows[f].thrown, failure)), f, failure)
    /\ UNCHANGED <<binderVars, appState, conn, dres, blog, poolFree, closeCnt,
                   nextPool, calls>>

\* The release completes: the connection is back in the pool and the
\* generator ends, normally or with the pending exception.
ScopeReleased(f) ==
    /\ flows[f].pc = "release"
    /\ poolFree' = [poolFree EXCEPT ![flows[f].pool] = @ + 1]
    /\ flows' = [flows EXCEPT ![f].pc = "done",
                              ![f].res = IF flows[f].exc = NoExc THEN "ok"
                                         ELSE flows[f].exc,
                              ![f].trace = Append(@, "released")]
    /\ UNCHANGED <<binderVars, appState, conn, dres, blog, closeCnt, nextPool, calls>>

\* ----------------------------------------------------------- specification
Next ==
    \/ \E b \in Binders, func \in {None} \cup CtorRoutines :
          \E p \in {None, b} : ConfigureAsyncpg(b, func, p)
    \/ \E b \in Binders : OnConnectBegin(b)
    \/ \E b \in Binders, ok \in BOOLEAN : OnConnectCreated(b, ok)
    \/ \E b \in Binders, ok \in BOOLEAN : OnConnectAcquired(b, ok)
    \/ \E b \in Binders, ok \in BOOLEAN : OnConnectInitDone(b, ok)
    \/ \E b \in Binders : OnConnectReleased(b)
    \/ \E b \in Binders : OnDisconnect(b)
    \/ \E b \in Binders, func \in Routines : on_init(b, func)
    \/ \E f \in Flows, b \in Binders, kind \in Kinds : ScopeEnter(f, b, kind)
    \/ \E f \in Flows, ok \in BOOLEAN : ScopeAcquired(f, ok)
    \/ \E f \in Flows, ok \in BOOLEAN : TxnStarted(f, ok)
    \/ \E f \in Flows, thrown \in {NoExc} \cup CallerErrors : ScopeResume(f, thrown)
    \/ \E f \in Flows, failure \in {NoExc, "CommitError"} : TxnCommitted(f, failure)
    \/ \E f \in Flows, failure \in {NoExc, "RollbackError"} : TxnRolledBack(f, failure)
    \/ \E f \in Flows : ScopeReleased(f)

Spec == Init /\ [][Next]_vars

\* Scheduling of a flow that is inside a scope.  The event loop resumes a
\* coroutine whose awaited driver call has finished (weak fairness of the
\* steps after start, commit, rollback and release); the caller's work ends
\* and resumes the generator (weak fairness of ScopeResume); and the pool
\* serves the flows suspended in acquire in turn, so a flow for which a
\* connection is free again and again gets one (strong fairness of the
\* successful acquire).  Nothing forces acquire to fail, a handler to run or
\* a new invocation to be made.
FlowFairness(f) ==
    /\ SF_vars(ScopeAcquired(f, TRUE))
    /\ WF_vars(\E ok \in BOOLEAN : TxnStarted(f, ok))
    /\ WF_vars(\E thrown \in {NoExc} \cup CallerErrors : ScopeResume(f, thrown))
    /\ WF_vars(\E failure \in {NoExc, "CommitError"} : TxnCommitted(f, failure))
    /\ WF_vars(\E failure \in {NoExc, "RollbackError"} : TxnRolledBack(f, failure))
    /\ WF_vars(ScopeReleased(f))

SpecFair == Spec /\ \A f \in Flows : FlowFairness(f)

\* ================================================================== claims
TxnFlows == {f \in Flows : flows[f].kind = "transaction"}
ConnFlows == {f \in Flows : flows[f].kind = "connection"}

Called(f, op) == CountT(flows[f].trace, op)

\* Indices of the trace of flow f at which one of the calls in ops was made.
At(f, ops) == {i \in DOMAIN flows[f].trace : flows[f].trace[i] \in ops}

\* The caller's work has ended in flow f (the generator was resumed at the yield).
BodyLeft(f) ==
    /\ At(f, {"yield"}) # {}
    /\ flows[f].pc \in {"commit", "rollback", "release", "done"}

\* Connections of pool p that are borrowed: by flows, and by on_connect for
\* the init routine.
Borrowed(p) ==
    Cardinality({f \in Flows : Holding(f) /\ flows[f].pool = p})
    + Cardinality({b \in Binders : conn[b].pc \in {"init", "release"} /\ conn[b].pool = p})

\* C1: every connection() invocation whose acquire succeeded calls release
\* exactly once, whether the caller completed normally or raised: release is
\* never called twice nor without a connection, a finished invocation has
\* as many releases as successful acquires, and the connections missing from
\* a pool are exactly those of the invocations still inside their scope.
C1_ConnectionReleasedOnce ==
    /\ \A f \in ConnFlows :
          /\ Called(f, "release") <= (IF flows[f].got THEN 1 ELSE 0)
          /\ flows[f].pc = "done" =>
                /\ Called(f, "release") = (IF flows[f].got THEN 1 ELSE 0)
                /\ Called(f, "released") = Called(f, "release")
    /\ \A p \in Pools : PoolCapacity - poolFree[p] = Borrowed(p)

\* A connection() invocation that acquired, whose caller raised, has finished.
C1_Witness ==
    \E f \in ConnFlows :
        /\ flows[f].pc = "done" /\ flows[f].got
        /\ flows[f].thrown = "CallerError" /\ flows[f].res = "CallerError"

\* C2: in a transaction() invocation whose caller completed normally, commit
\* is called exactly once and rollback is never called.
C2_CommitOnceNoRollback ==
    \A f \in TxnFlows :
        (BodyLeft(f) /\ flows[f].thrown = NoExc) =>
            /\ Called(f, "commit") = 1
            /\ Called(f, "rollback") = 0

\* A transaction() invocation whose caller completed normally and whose
\* commit failed has finished.
C2_Witness ==
    \E f \in TxnFlows :
        /\ flows[f].pc = "done" /\ BodyLeft(f)
        /\ flows[f].thrown = NoExc /\ flows[f].failure = "CommitError"

\* C3 as stated: in a transaction() invocation whose caller raised, rollback
\* is called exactly once, commit never, and the failure reaching the scope's
\* caller is the one the caller raised.
C3_OriginalAlwaysReraised ==
    \A f \in TxnFlows :
        (flows[f].pc = "done" /\ flows[f].thrown # NoExc) =>
            /\ Called(f, "rollback") = 1
            /\ Called(f, "commit") = 0
            /\ flows[f].res = flows[f].thrown

\* C3 amended: in a transaction() invocation whose caller raised, rollback is
\* called exactly once, commit never, and the failure reaching the scope's
\* caller is the one the caller raised when the rollback call succeeded, and
\* the rollback's own failure when it did not.
C3_RollbackThenReraise ==
    \A f \in TxnFlows :
        (BodyLeft(f) /\ flows[f].thrown # NoExc) =>
            /\ Called(f, "rollback") = 1
            /\ Called(f, "commit") = 0
            /\ flows[f].pc = "done" =>
                  /\ flows[f].failure \in {NoExc, "RollbackError"}
                  /\ flows[f].res = (IF flows[f].failure = NoExc THEN flows[f].thrown
                                     ELSE flows[f].failure)

\* A transaction() invocation whose caller raised and whose rollback
\* succeeded has finished with the caller's failure.
C3_Witness ==
    \E f \in TxnFlows :
        /\ flows[f].pc = "done" /\ flows[f].thrown = "CallerError"
        /\ flows[f].failure = NoExc /\ flows[f].res = "CallerError"

\* C4: in a transaction() invocation that acquired a connection, release is
\* called at most once and exactly once by the time the invocation has
\* finished; every commit or rollback call precedes the release call; and
\* once the caller's work has ended (either branch), the release is preceded
\* by exactly one commit or rollback call.
C4_TxnEndBeforeRelease ==
    \A f \in TxnFlows :
        /\ Called(f, "release") <= (IF flows[f].got THEN 1 ELSE 0)
        /\ (flows[f].pc = "done" /\ flows[f].got) => Called(f, "release") = 1
        /\ \A i \in At(f, {"commit", "rollback"}), j \in At(f, {"release", "released"}) : i < j
        /\ (BodyLeft(f) /\ At(f, {"release"}) # {}) =>
              Cardinality(At(f, {"commit", "rollback"})) = 1

\* A transaction() invocation has rolled back and then released.
C4_Witness ==
    \E f \in TxnFlows :
        flows[f].trace = <<"acquire", "start", "yield", "rollback", "release", "released">>

\* C5: when the commit or the rollback call of a transaction() invocation
\* fails, that failure is what reaches the scope's caller, the call is not
\* repeated, and release is still called exactly once.
C5_TxnEndFailurePropagates ==
    \A f \in TxnFlows :
        (flows[f].pc = "done" /\ flows[f].failure \in {"CommitError", "RollbackError"}) =>
            /\ flows[f].res = flows[f].failure
            /\ Called(f, "commit") + Called(f, "rollback") = 1
            /\ Called(f, "release") = 1
            /\ Called(f, "released") = 1

\* One invocation has finished after a failed commit and another after a
\* failed rollback.
C5_Witness ==
    \E f, g \in TxnFlows :
        /\ flows[f].pc = "done" /\ flows[f].failure = "CommitError"
        /\ flows[g].pc = "done" /\ flows[g].failure = "RollbackError"

\* The pool stored by the latest setattr among the first n entries of log s
\* (None when there is none).
RECURSIVE LastSet(_, _)
LastSet(s, n) ==
    IF n = 0 THEN None
    ELSE IF s[n].op = "setattr" THEN s[n].arg
    ELSE LastSet(s, n - 1)

Owned(b) == b \in built /\ ~Truthy(self_pool[b])

\* close() calls on pool p logged by binders 1..n.
RECURSIVE CloseCalls(_, _)
CloseCalls(p, n) ==
    IF n = 0 THEN 0
    ELSE Cardinality({i \in DOMAIN blog[n] : blog[n][i] = Ev("close", p)})
         + CloseCalls(p, n - 1)

\* C6: with a bypass pool supplied at construction, whatever sequence of
\* on_connect / on_init / on_disconnect calls has run, the handlers have
\* made no create_pool, acquire, init-routine or close call: on_connect
\* never suspends, always succeeds and leaves the bypass pool in the
\* binder's slot, and the bypass pool has received no close().
C6_BypassUntouched ==
    \A b \in Binders :
        Truthy(self_pool[b]) =>
            /\ \A i \in DOMAIN blog[b] :
                  blog[b][i] \in {Ev("setattr", self_pool[b]), Ev("on_disconnect", None)}
            /\ closeCnt[self_pool[b]] = 0
            /\ conn[b].pc = "idle"
            /\ conn[b].res \in {"none", "ok"}
            /\ dres[b] \in {"none", "ok"}
            /\ conn[b].oks > 0 => (pool(b).ok /\ pool(b).val = self_pool[b])

\* A bypass binder on which a routine was registered through on_init has been
\* started and shut down.
C6_Witness ==
    \E b \in Binders :
        /\ Truthy(self_pool[b]) /\ init_db[b] = 2
        /\ conn[b].oks = 1 /\ dres[b] = "ok"
        /\ blog[b] = <<Ev("setattr", self_pool[b]), Ev("on_disconnect", None)>>

\* C7: on the owned path, when the init routine of the latest on_connect
\* failed, on_connect ended with the routine's failure and the pool it
\* created is in no slot; when no earlier on_connect succeeded, the accessor
\* fails (AttributeError: the slot was never set).
C7_InitFailureNotPublished ==
    \A b \in Binders :
        (Owned(b) /\ conn[b].pc = "idle" /\ conn[b].exc = "InitError") =>
            /\ conn[b].res = "InitError"
            /\ \A c \in DOMAIN appState : appState[c] # conn[b].pool
            /\ conn[b].oks = 0 => (~pool(b).ok /\ pool(b).exc = "AttributeError")

\* An owned binder's first on_connect has ended after its init routine failed.
C7_Witness ==
    \E b \in Binders :
        /\ Owned(b) /\ conn[b].pc = "idle" /\ conn[b].exc = "InitError"
        /\ conn[b].oks = 0 /\ Count(blog[b], "init") = 1

\* C8 as stated: on the owned path with no init routine (init_db is None),
\* an on_connect whose driver calls did not fail has created the pool,
\* acquired no connection, stored the pool in the slot and returned normally.
C8_StartupWithoutInit ==
    \A b \in Binders :
        ( /\ Owned(b) /\ init_db[b] = None
          /\ conn[b].pc = "idle"
          /\ conn[b].res \notin {"none", "ConnectionError", "AcquireError"} ) =>
            /\ conn[b].res = "ok"
            /\ Count(blog[b], "acquire") = 0
            /\ pool(b).ok /\ pool(b).val = conn[b].pool

\* C9: on the owned path, every on_disconnect that runs after a successful
\* on_connect calls close() exactly once, on the pool then stored in the
\* slot, which is a pool this binder's on_connect created; close() is called
\* nowhere else.
C9_CloseOnceOnStored ==
    /\ \A b \in Binders :
          Owned(b) =>
              \A i \in DOMAIN blog[b] :
                  /\ (blog[b][i].op = "on_disconnect" /\ LastSet(blog[b], i) # None) =>
                        /\ i + 1 \in DOMAIN blog[b]
                        /\ blog[b][i + 1] = Ev("close", LastSet(blog[b], i))
                        /\ (i + 2 \in DOMAIN blog[b]) => blog[b][i + 2].op # "close"
                        /\ LastSet(blog[b], i) \in CreatedPools
                        /\ \E j \in 1..i : blog[b][j] = Ev("acquire", LastSet(blog[b], i))
                  /\ blog[b][i].op = "close" =>
                        /\ i > 1
                        /\ blog[b][i - 1].op = "on_disconnect"
    /\ \A p \in Pools :
          closeCnt[p] = CloseCalls(p, NumBinders)

\* An owned binder was started successfully and then shut down.
C9_Witness ==
    \E b \in Binders :
        /\ Owned(b) /\ conn[b].oks = 1 /\ dres[b] = "ok"
        /\ blog[b][Len(blog[b])].op = "close"
        /\ closeCnt[appState[db_code[b]]] = 1

\* C10: the accessor fails (AttributeError) as long as no on_connect of the
\* binder has returned normally, also while on_connect is suspended in
\* create_pool, acquire, the init routine or the release; afterwards it
\* returns the pool the latest successful on_connect stored.
C10_AccessorNeedsStartup ==
    \A b \in built :
        /\ conn[b].oks = 0 => (~pool(b).ok /\ pool(b).exc = "AttributeError")
        /\ conn[b].oks > 0 =>
              /\ pool(b).ok
              /\ pool(b).val = LastSet(blog[b], Len(blog[b]))

\* A flow called the accessor, and failed, while the binder's first
\* on_connect was suspended in the init routine.
C10_Witness ==
    \E b \in Binders, f \in Flows :
        /\ conn[b].pc = "init" /\ conn[b].oks = 0
        /\ flows[f].binder = b /\ flows[f].pc = "done"
        /\ flows[f].res = "AttributeError" /\ flows[f].trace = <<>>
        /\ calls = 3

\* on_connect of binder b is suspended (in create_pool, acquire, the init
\* routine or the release of the init connection).
Suspended(b) == conn[b].pc # "idle"

\* C11: no connection() / transaction() invocation acquires a connection
\* before an on_connect of its binder has returned normally: an invocation
\* entered while no on_connect has completed (in particular while the first
\* one is suspended, the init routine included) ends at the accessor with
\* AttributeError, calls no acquire and takes nothing from any pool; and
\* every invocation that called acquire belongs to a started binder.
C11_NoAcquireBeforeStartup ==
    /\ [](\A f \in Flows :
            flows[f].trace # <<>> => conn[flows[f].binder].oks > 0)
    /\ [][\A f \in Flows :
            ( /\ flows[f].pc = "idle" /\ flows'[f].pc # "idle"
              /\ conn[flows'[f].binder].oks = 0 ) =>
                /\ flows'[f].pc = "done"
                /\ flows'[f].res = "AttributeError"
                /\ flows'[f].trace = <<>>
                /\ ~flows'[f].got
                /\ poolFree' = poolFree]_vars

\* A transaction() invocation entered while the binder's first on_connect
\* was suspended in the release of the init connection has failed.
C11_Witness ==
    \E b \in built, f \in TxnFlows :
        /\ Suspended(b) /\ conn[b].pc = "release" /\ conn[b].oks = 0
        /\ conn[b].exc = NoExc
        /\ flows[f].binder = b /\ flows[f].pc = "done"
        /\ flows[f].res = "AttributeError" /\ Called(f, "acquire") = 0

\* C12: binders constructed on the same application have distinct slot
\* names; once started, each binder's accessor returns the pool that binder's
\* own latest successful on_connect stored; and a step that is not a step of
\* binder b's own on_connect (another binder being constructed, started,
\* shut down or used, or b itself being shut down or used) leaves what b's
\* accessor returns unchanged.
C12_BindersIndependent ==
    /\ [](\A a, b \in built : a # b => db_code[a] # db_code[b])
    /\ [](\A b \in built :
            conn[b].oks > 0 =>
                /\ pool(b).ok
                /\ pool(b).val = LastSet(blog[b], Len(blog[b]))
                /\ \E i \in DOMAIN blog[b] : blog[b][i] = Ev("setattr", pool(b).val))
    /\ [][\A b \in built :
            conn'[b] = conn[b] => appState'[db_code'[b]] = appState[db_code[b]]]_vars

\* Two owned binders have both been started and their accessors return two
\* different pools, each the one its binder created.
C12_Witness ==
    \E a, b \in built :
        /\ a # b /\ Owned(a) /\ Owned(b)
        /\ conn[a].oks = 1 /\ conn[b].oks = 1
        /\ pool(a).ok /\ pool(b).ok /\ pool(a).val # pool(b).val
        /\ pool(a).val = conn[a].pool /\ pool(b).val = conn[b].pool

\* connection() invocations that hold a connection borrowed from pool p.
ConnHolders(p) == {f \in ConnFlows : Holding(f) /\ flows[f].pool = p}

\* C13: with several flows inside connection() at once on one pool, the
\* flows holding a borrowed connection never outnumber the pool's capacity:
\* with capacity 1, at most one flow holds the connection in every reachable
\* state, and the others are suspended in acquire.
C13_AtMostCapacityHolders ==
    \A p \in Pools :
        /\ Cardinality(ConnHolders(p)) <= PoolCapacity
        /\ poolFree[p] >= 0
        /\ poolFree[p] <= PoolCapacity - Cardinality(ConnHolders(p))

\* As many connection() invocations as the pool has connections are running
\* their caller's work, the pool is exhausted and one more invocation is
\* suspended in acquire on it.
C13_Witness ==
    \E p \in Pools, g \in ConnFlows :
        /\ Cardinality({f \in ConnHolders(p) : flows[f].pc = "body"}) = PoolCapacity
        /\ poolFree[p] = 0
        /\ flows[g].pc = "acquire" /\ flows[g].pool = p

\* C14: with several flows inside connection() at once on a pool of capacity
\* 1, every caller's work finishing (normally or by raising), no flow waits
\* forever in acquire under fair scheduling: as long as the pool stays open
\* and acquire does not raise, every flow suspended in acquire eventually
\* gets the connection, runs its caller's work and ends with the connection
\* released.
C14_NoFlowWaitsForever ==
    \A f \in Flows :
        (flows[f].kind = "connection" /\ flows[f].pc = "acquire")
            ~> \/ /\ flows[f].pc = "done" /\ flows[f].got
                  /\ Called(f, "yield") = 1 /\ Called(f, "released") = 1
               \/ flows[f].pc = "done" /\ flows[f].res = "AcquireError"
               \/ \E p \in Pools : p = flows[f].pool /\ closeCnt[p] > 0

\* A connection() invocation is suspended in acquire on an exhausted pool
\* while another one, whose caller raised, is releasing the connection.
C14_Witness ==
    \E f, g \in ConnFlows :
        /\ flows[g].pc = "acquire" /\ flows[f].pc = "release"
        /\ flows[f].pool = flows[g].pool /\ poolFree[flows[g].pool] = 0
        /\ flows[f].thrown = "CallerError"

\* Pools that binder b's on_connect created (for b's slot) and on which
\* close() has not been called.
LivePools(b) ==
    {p \in CreatedPools :
        /\ \E i \in DOMAIN blog[b] : blog[b][i] = Ev("acquire", p)
        /\ closeCnt[p] = 0}

\* C15 as stated: at any time, after any sequence of on_connect and
\* on_disconnect calls on a binder, at most one pool created for the
\* binder's slot is live (created and not yet closed).
C15_AtMostOneLivePool ==
    \A b \in built : Cardinality(LivePools(b)) <= 1

\* What reaches the generator when the flow is cancelled or the generator is
\* terminated early while the caller's work is running.
Terminations == {"CancelledError", "GeneratorExit"}

\* C16: when a flow is cancelled, or the scope is terminated early, while the
\* caller's work is running, the scope treats it as a failure of the caller:
\* connection() calls release (once, and nothing else); transaction() calls
\* rollback once, never commit, and then release; the invocation ends with a
\* failure, which is the cancellation itself when the rollback succeeded.
C16_CancellationIsFailure ==
    \A f \in Flows :
        (BodyLeft(f) /\ flows[f].thrown \in Terminations) =>
            /\ Called(f, "commit") = 0
            /\ Called(f, "rollback") = (IF flows[f].kind = "transaction" THEN 1 ELSE 0)
            /\ \A i \in At(f, {"rollback"}), j \in At(f, {"release"}) : i < j
            /\ flows[f].pc \in {"release", "done"} => Called(f, "release") = 1
            /\ flows[f].pc = "done" =>
                  /\ Called(f, "released") = 1
                  /\ flows[f].res # "ok"
                  /\ flows[f].failure = NoExc => flows[f].res = flows[f].thrown

\* A cancelled transaction() invocation and an early-terminated connection()
\* invocation have both finished.
C16_Witness ==
    \E f \in TxnFlows, g \in ConnFlows :
        /\ flows[f].pc = "done" /\ flows[f].thrown = "CancelledError"
        /\ flows[f].trace = <<"acquire", "start", "yield", "rollback", "release", "released">>
        /\ flows[g].pc = "done" /\ flows[g].thrown = "GeneratorExit"
        /\ flows[g].trace = <<"acquire", "yield", "release", "released">>

\* C17: in one transaction() invocation commit and rollback are never both
\* called and neither is called twice; both come after the yield; rollback
\* is called only when the caller's work ended with a failure, commit only
\* when it ended normally; and after a commit that failed no rollback is
\* called.
C17_CommitXorRollback ==
    \A f \in TxnFlows :
        /\ Called(f, "commit") + Called(f, "rollback") <= 1
        /\ \A i \in At(f, {"commit", "rollback"}) : \E j \in At(f, {"yield"}) : j < i
        /\ Called(f, "rollback") > 0 => flows[f].thrown # NoExc
        /\ Called(f, "commit") > 0 => flows[f].thrown = NoExc
        /\ flows[f].failure = "CommitError" =>
              /\ Called(f, "rollback") = 0
              /\ flows[f].pc \in {"release", "done"}

\* One invocation has finished after a failed commit, with no rollback, and
\* another one, whose caller raised, has rolled back and is releasing.
C17_Witness ==
    \E f, g \in TxnFlows :
        /\ flows[f].trace = <<"acquire", "start", "yield", "commit", "release", "released">>
        /\ flows[f].res = "CommitError"
        /\ flows[g].thrown = "CallerError" /\ flows[g].pc = "release"
        /\ Called(g, "rollback") = 1

\* C18: when txn.start() fails after a successful acquire, the connection is
\* never yielded (the caller's work does not run), neither commit nor
\* rollback is called, release is called exactly once, and the invocation
\* ends with the start failure.
C18_StartFailureReleases ==
    \A f \in TxnFlows :
        flows[f].failure = "StartError" =>
            /\ flows[f].got
            /\ Called(f, "yield") = 0
            /\ Called(f, "commit") = 0 /\ Called(f, "rollback") = 0
            /\ Called(f, "release") = 1
            /\ flows[f].pc \in {"release", "done"}
            /\ flows[f].pc = "done" =>
                  /\ flows[f].res = "StartError"
                  /\ Called(f, "released") = 1
                  /\ flows[f].trace = <<"acquire", "start", "release", "released">>

\* A transaction() invocation whose start failed has finished and its
\* connection is back in the pool.
C18_Witness ==
    \E f \in TxnFlows :
        /\ flows[f].pc = "done" /\ flows[f].failure = "StartError"
        /\ flows[f].res = "StartError"
        /\ poolFree[flows[f].pool] = PoolCapacity

\* Index of the latest op entry among the first n entries of log s (0 when
\* there is none).
RECURSIVE LastOp(_, _, _)
LastOp(s, op, n) ==
    IF n = 0 THEN 0
    ELSE IF s[n].op = op THEN n
    ELSE LastOp(s, op, n - 1)

\* The owned on_connect of binder b that ran last got as far as the init
\* routine and has ended.
InitRan(b) ==
    Owned(b) /\ conn[b].pc = "idle" /\ conn[b].res \in {"ok", "InitError"}

\* C19: on_init(routine) replaces the init routine and returns the routine
\* it was given.  On the owned path the routine on_connect calls is the one
\* registered last (at construction or by on_init) when the acquire returns;
\* an on_connect that got that far has called it exactly once, with a
\* connection acquired from the pool it has just created, and has released
\* that connection before it stores the pool or fails.
C19_LatestRoutineRunsOnce ==
    /\ [](\A b \in built :
            /\ init_db[b] = regs[b].arg
            /\ regs[b].by = "on_init" => regs[b].ret = regs[b].arg)
    /\ [][\A b \in built :
            ( /\ conn[b].pc = "acquire" /\ conn'[b].pc \notin {"acquire", "idle"}
              /\ regs[b].arg # None ) =>
                /\ conn'[b].pc = "init"
                /\ blog'[b] = Append(blog[b], Ev("init", regs[b].arg))]_vars
    /\ [](\A b \in built :
            InitRan(b) =>
                LET n == Len(blog[b])
                    i == LastOp(blog[b], "create_pool", n)
                IN  /\ i > 0 /\ i + 3 <= n
                    /\ conn[b].pool \in CreatedPools
                    /\ blog[b][i + 1] = Ev("acquire", conn[b].pool)
                    /\ blog[b][i + 2].op = "init"
                    /\ blog[b][i + 3] = Ev("release", conn[b].pool)
                    /\ \A j \in (i + 3)..n : blog[b][j].op \notin {"init", "acquire"}
                    /\ conn[b].res = "ok" =>
                          /\ i + 4 <= n
                          /\ blog[b][i + 4] = Ev("setattr", conn[b].pool)
                    /\ conn[b].res = "InitError" =>
                          \A j \in (i + 3)..n : blog[b][j].op # "setattr")

\* An owned binder on which on_init registered routine 2 after its
\* construction has been started: that routine was called, once.
C19_Witness ==
    \E b \in built :
        /\ InitRan(b) /\ conn[b].res = "ok"
        /\ regs[b] = [by |-> "on_init", arg |-> 2, ret |-> 2]
        /\ blog[b] = <<Ev("create_pool", None), Ev("acquire", conn[b].pool),
                       Ev("init", 2), Ev("release", conn[b].pool),
                       Ev("setattr", conn[b].pool)>>

\* A call of binder b's on_connect returns normally in this step.
OnConnectReturns(b) ==
    /\ conn'[b].oks = conn[b].oks + 1
    /\ conn'[b].pc = "idle" /\ conn'[b].res = "ok"

\* C20: app.state is written only by an on_connect that returns normally,
\* and only at its own binder's slot; on_disconnect, on_init, the
\* constructor, the accessor, connection() and transaction() leave it
\* unchanged.  So after an owned-path on_disconnect has closed the pool, the
\* accessor still returns that (closed) pool instead of failing with
\* AttributeError.
C20_SlotWrittenByStartupOnly ==
    /\ [][appState' # appState =>
            \E b \in built :
                /\ OnConnectReturns(b)
                /\ \A c \in Codes : c # db_code[b] => appState'[c] = appState[c]]_vars
    /\ [](\A b \in built :
            ( /\ Owned(b) /\ blog[b] # <<>>
              /\ blog[b][Len(blog[b])].op = "close" ) =>
                /\ pool(b).ok
                /\ pool(b).val = blog[b][Len(blog[b])].arg
                /\ closeCnt[pool(b).val] > 0)

\* An owned binder has been started and shut down, its accessor returns the
\* closed pool, and a scope invocation of the binder is suspended in acquire
\* on that pool.
C20_Witness ==
    \E b \in built, f \in Flows :
        /\ Owned(b) /\ blog[b] # <<>> /\ blog[b][Len(blog[b])].op = "close"
        /\ pool(b).ok /\ closeCnt[pool(b).val] = 1
        /\ flows[f].binder = b /\ flows[f].pool = pool(b).val
        /\ flows[f].pc = "acquire"

====
